---- MODULE Spec2Model ----
(***************************************************************************)
(* Rachel back end: account registration (AnonymousFacade.register_user)   *)
(* over the data-access layer (DAL) and the relational store.              *)
(*                                                                         *)
(* Every request thread runs register_user inside one                      *)
(* transaction.atomic() block.  The committed tables are what other        *)
(* operations can see.  A call takes two steps: the uniqueness pre-check,  *)
(* which reads the committed tables, and the writes.  The writes of a      *)
(* block are invisible to the other threads until the block exits, and an  *)
(* INSERT that meets an uncommitted row with the same unique key waits for *)
(* that transaction to end, so the writes of a block act on the committed  *)
(* tables as one step taken when the block exits.                          *)
(***************************************************************************)
EXTENDS Integers, FiniteSets, Sequences, TLC

\* ------------------------------------------------------------------ bounds
\* total number of register_user calls in one behaviour
MaxCalls == 2

\* number of register_user calls in one behaviour of SpecMail
MaxMailCalls == 1

\* ------------------------------------------------------------------ inputs
\* request threads that may run register_user concurrently
Procs == {"r1", "r2"}
Before(p, q) == p = "r1" /\ q = "r2"

Usernames == {"alice", "bob"}
Emails == {"a@x.org", "b@x.org"}
Phones == {"+1555"}
IdNumbers == {"ID-100", "ID-200"}
IdTypes == {"passport"}
\* rows of the City table, and the city ids a request may send
Cities == {"TLV"}
CityIds == {"TLV", "nowhere"}
UserTypes == {"civilian", "support_provider", "volunteer"}

\* The arguments of register_user that its pre-check reads.  The issuing
\* country is the one Country row, "IL".
Payloads ==
    [username : Usernames, email : Emails, phone_number : Phones,
     identification_number : IdNumbers, id_type : IdTypes,
     terms_accepted : BOOLEAN]

\* how one write through the DAL can end: it succeeds, it raises before the
\* INSERT reaches the store (model construction or validation), or the store
\* raises a DatabaseError
Faults == {"none", "model_error", "db_error"}

\* The remaining arguments, read after the pre-check, and what the store and
\* the model layer do to each write of the call.
\*   intentions_ids: 'intentions_ids' in extra_fields
\*   categories_ids: support_provider_categories_ids is a non-empty list
\*   set_fails: intentions.set / support_provider_categories.set raises
\*   activation_mail, welcome_mail: message.send() of the post_save receiver
\*     succeeds
\*   signal_fault: what the store does to the UserActivity writes of the
\*     post_save receivers
RestOver(mail, signal_faults) ==
    [user_type : UserTypes, city_id : CityIds, intentions_ids : BOOLEAN,
     categories_ids : BOOLEAN, user_fault : Faults, profile_fault : Faults,
     set_fails : BOOLEAN, activity_fault : Faults,
     activation_mail : mail, welcome_mail : mail,
     signal_fault : signal_faults]

AllRest == RestOver(BOOLEAN, {"none", "db_error"})

\* A statement the call never reaches reads no argument and meets no fault:
\* of the combinations that differ only there, one is drawn.
Reached(in) ==
    LET user_lost == in.intentions_ids \/ in.user_fault # "none"
        stops_at_lookup == \/ in.user_fault = "db_error"
                           \/ in.signal_fault = "db_error"
                           \/ in.city_id \notin Cities
        no_profile == stops_at_lookup
                      \/ in.user_type \notin {"civilian", "support_provider"}
        relations == IF in.user_type = "civilian" THEN in.intentions_ids
                     ELSE in.categories_ids
        no_activity == no_profile \/ user_lost
                       \/ (relations /\ (in.profile_fault # "none" \/ in.set_fails))
    IN  /\ in.intentions_ids => in.user_fault = "none"
        /\ stops_at_lookup => in.user_type = "civilian"
        /\ in.user_type # "support_provider" => ~in.categories_ids
        /\ no_profile => in.profile_fault = "none"
        /\ in.set_fails => ~no_profile /\ relations /\ in.profile_fault = "none"
        /\ user_lost => in.profile_fault # "db_error"
        /\ no_activity \/ in.profile_fault = "db_error"
                => in.activity_fault = "none"
        /\ user_lost => in.activation_mail /\ in.welcome_mail
        /\ in.signal_fault = "db_error"
                => ~user_lost /\ (in.activation_mail \/ in.welcome_mail)
                   /\ in.city_id \in Cities

\* every reached combination, mail transport failing or not
RestMail == {in \in AllRest : Reached(in)}

\* the combinations with the mail transport up and the receivers' writes
\* accepted
Rest == {in \in RestOver({TRUE}, {"none"}) : Reached(in)}

UniqueFields == {"username", "email", "phone_number", "identification_number"}

VARIABLES
    users,        \* committed auth_user rows
    civilians,    \* committed Civilian rows
    providers,    \* committed SupportProvider rows
    admins,       \* committed Administrator rows
    activities,   \* committed UserActivity rows
    calls,        \* number of register_user calls started so far
    pc,           \* position of each request thread
    req,          \* arguments of the thread's running call, as a set of one
    seen,         \* what held when the thread's call started: the unique fields
                  \* already taken, whether the payload repeats a registered
                  \* one, whether the terms were accepted
    last,         \* the call that ended most recently: how it ended, what it
                  \* had seen, the kinds of row its block had written when it
                  \* exited, the unique keys the store refused it, the mails
                  \* it sent, whether its block committed
    registered,   \* payloads of the calls that committed an Identity
    attempts,     \* AccessAttempt rows of the attempt tracker:
                  \* failures_since_start by (username, ip_address), 0 = no row
    ledger,       \* AttemptLedger: failed logins by source
    lockouts,     \* FailedLoginAttempt rows: username, lockout_until
    now,          \* the clock, in minutes
    logins,       \* number of login events so far
    lastlogin,    \* the login event that ended most recently
    activated,    \* usernames an Administrator's activate_user has activated
    lastadmin,    \* the Administrator facade call that ended most recently
    resets,       \* PasswordResetRequest rows
    issued,       \* reset tokens mailed, by user
    issued_at,    \* when each reset token was last mailed, -1 for never
    redeemed,     \* reset tokens a finalize_password_reset call accepted
    passwords,    \* the password of each user
    rthread,      \* request_password_reset calls in progress
    resetcalls,   \* number of password reset calls so far
    lastreset,    \* the password reset call that ended most recently
    completed     \* request_password_reset calls that returned, by user

\* registration
regvars == <<calls, pc, req, seen, last, registered>>
\* login, lockout and activation
access == <<attempts, ledger, lockouts, now, logins, lastlogin, activated,
           lastadmin>>

\* password reset
resetvars == <<resets, issued, issued_at, redeemed, passwords, rthread,
               resetcalls, lastreset, completed>>

vars == <<users, civilians, providers, admins, activities, regvars, access,
          resetvars>>

tables == <<users, civilians, providers, admins, activities>>

\* ------------------------------------------------------------- the store
\* A value that Python holds as "an object or None" is a set of at most one
\* row: {} is None.  A row of auth_user is known by its username, which the
\* table keeps unique; profile and activity rows point to it.
\* User(**user_data) sets no is_active: the column default, True, applies
UserRow(r) == [username |-> r.username, email |-> r.email, is_active |-> TRUE]

ProfileRow(r) ==
    [user |-> r.username, identification_number |-> r.identification_number,
     id_type |-> r.id_type, country_of_issue |-> "IL",
     phone_number |-> r.phone_number]

ActivityRow(r, type) == [user |-> r.username, activity_type |-> type]

\* the uncommitted writes of an atomic block
EmptyTxn == [user |-> {}, civilian |-> {}, provider |-> {}, activity |-> {},
             needs_rollback |-> FALSE]

\* the kinds of row an atomic block has written
Written(txn) ==
    (IF txn.user # {} THEN {"Identity"} ELSE {})
    \cup (IF txn.civilian \cup txn.provider # {} THEN {"Profile"} ELSE {})
    \cup (IF txn.activity # {} THEN {"Activity"} ELSE {})

\* return user: value is the Identity's username, "None" for None
Returned(v) == [kind |-> "returned", fields |-> {}, value |-> v]
\* ValidationError(errors): fields = keys of the dict; a ValidationError built
\* from a plain message has no field
Validation(fs) ==
    [kind |-> "ValidationError", fields |-> fs, value |-> "None"]
Generic == [kind |-> "Exception", fields |-> {}, value |-> "None"]

NotSeen == [collided |-> {}, dup |-> FALSE, terms_accepted |-> TRUE]

\* the superuser and its Administrator profile, entered through the admin site
AdminUser == [username |-> "root", email |-> "root@x.org", is_active |-> TRUE]
AdminProfile ==
    [user |-> "root", identification_number |-> "ID-100", id_type |-> "passport",
     country_of_issue |-> "IL", phone_number |-> "+1000"]

\* DAL.get_by_field: model.objects.get(**kwargs); DoesNotExist and every other
\* exception (MultipleObjectsReturned included) give None
get_by_field(rows) == IF Cardinality(rows) = 1 THEN rows ELSE {}

\* DAL.filter(User, phone_number=...): auth User has no phone_number column,
\* the lookup raises FieldError and DAL.filter returns model.objects.none()
filter_User_phone(phone) == {}

\* DAL.filter(model, identification_number=, country_of_issue_id=, id_type=)
filter_identification(rows, r) ==
    {x \in rows : /\ x.identification_number = r.identification_number
                  /\ x.country_of_issue = "IL"
                  /\ x.id_type = r.id_type}

\* DAL.get_by_id(City, id)
get_by_id_City(id) == IF id \in Cities THEN {id} ELSE {}

\* ------------------------------------------------- register_user, by step
\* a pre-check that tests the terms and no uniqueness
PreCheckTermsOnly(r) ==
    IF ~r.terms_accepted THEN {"terms_accepted"} ELSE {}

\* a pre-check that tests uniqueness and not the terms
PreCheckNoTerms(r) ==
    (IF get_by_field({u \in users : u.username = r.username}) # {}
     THEN {"username"} ELSE {})
    \cup (IF get_by_field({u \in users : u.email = r.email}) # {}
          THEN {"email"} ELSE {})
    \cup (IF \/ filter_identification(civilians, r) # {}
             \/ filter_identification(providers, r) # {}
          THEN {"identification_number"} ELSE {})

\* lines 88-115: the uniqueness pre-check, read from the committed tables
PreCheck(r) ==
    (IF ~r.terms_accepted THEN {"terms_accepted"} ELSE {})
    \cup (IF get_by_field({u \in users : u.username = r.username}) # {}
          THEN {"username"} ELSE {})
    \cup (IF get_by_field({u \in users : u.email = r.email}) # {}
          THEN {"email"} ELSE {})
    \cup (IF filter_User_phone(r.phone_number) # {}
          THEN {"phone_number"} ELSE {})
    \cup (IF \/ filter_identification(civilians, r) # {}
             \/ filter_identification(providers, r) # {}
          THEN {"identification_number"} ELSE {})

\* the unique fields of r that a committed row of any table already holds
Colliding(r) ==
    LET profiles == civilians \cup providers \cup admins IN
    {f \in UniqueFields :
        \/ f = "username" /\ \E u \in users : u.username = r.username
        \/ f = "email" /\ \E u \in users : u.email = r.email
        \/ f = "phone_number"
             /\ \E x \in profiles : x.phone_number = r.phone_number
        \/ f = "identification_number"
             /\ filter_identification(profiles, r) # {}}

\* the call ends: its locals are gone, its result is with the caller
Return(p, out, seenp, written, refused, mails, committed) ==
    /\ pc' = [pc EXCEPT ![p] = "idle"]
    /\ last' = [outcome |-> out, seen |-> seenp, written |-> written,
                refused |-> refused, mails |-> mails, committed |-> committed]
    /\ req' = [req EXCEPT ![p] = {}]
    /\ seen' = [seen EXCEPT ![p] = NotSeen]

\* a request goes to the first idle thread
FirstIdle(p) == \A q \in Procs : pc[q] = "idle" => ~Before(q, p)

\* lines 76-115: enter the atomic block, run the pre-check; ValidationError
\* (errors) leaves the block with nothing written
Validate(p) ==
    /\ pc[p] = "idle"
    /\ FirstIdle(p)
    /\ calls < MaxCalls
    /\ calls' = calls + 1
    /\ \E r \in Payloads :
        LET seenp == [collided |-> Colliding(r), dup |-> r \in registered,
                      terms_accepted |-> r.terms_accepted]
        IN  IF PreCheck(r) # {}
            THEN /\ Return(p, Validation(PreCheck(r)), seenp, {}, {}, {}, FALSE)
                 /\ UNCHANGED <<tables, registered>>
            ELSE /\ pc' = [pc EXCEPT ![p] = "validated"]
                 /\ req' = [req EXCEPT ![p] = {r}]
                 /\ seen' = [seen EXCEPT ![p] = seenp]
                 /\ UNCHANGED <<tables, registered, last>>
    /\ UNCHANGED <<access, resetvars>>

\* a store without the unique index on auth_user.username
UsernameNeverTaken(name) == FALSE

\* auth_user.username is unique: the INSERT is refused when a row has the name
UsernameTaken(name) == \E u \in users : u.username = name

\* receivers that let the failure of message.send() leave user.save(): DAL.create
\* then returns None in a transaction it takes for broken
post_save_User_unguarded(r, in) ==
    LET sent == in.activation_mail /\ in.welcome_mail
    IN  [mails |-> IF sent THEN {"Account Activated", "Welcome to Our Service"}
                   ELSE {},
         activity |-> IF sent /\ in.signal_fault = "none"
                      THEN {ActivityRow(r, "account_activated"),
                            ActivityRow(r, "welcome_email_sent")}
                      ELSE {},
         needs_rollback |-> ~sent \/ in.signal_fault = "db_error"]

\* The post_save receivers of User, run by user.save() inside the caller's
\* transaction for a created row: account_activation_notification, then
\* send_welcome_email.  Each sends its mail and, when the mail went out,
\* writes a UserActivity row; it logs and swallows every exception.  A
\* DatabaseError of the write leaves the transaction marked for rollback.
\* (create_shelter_signal finds the new user in no group and does nothing.)
post_save_User(r, in) ==
    LET mails == (IF in.activation_mail THEN {"Account Activated"} ELSE {})
                 \cup (IF in.welcome_mail THEN {"Welcome to Our Service"}
                       ELSE {})
        rows == (IF in.activation_mail
                 THEN {ActivityRow(r, "account_activated")} ELSE {})
                \cup (IF in.welcome_mail
                      THEN {ActivityRow(r, "welcome_email_sent")} ELSE {})
        broken == in.signal_fault = "db_error" /\ mails # {}
    IN  [mails |-> mails, activity |-> IF broken THEN {} ELSE rows,
         needs_rollback |-> broken]

\* DAL.create(User, **user_data): the row or None, and whether the store
\* refused.  'intentions_ids' travels in extra_fields into User(**user_data),
\* which raises TypeError on the unknown keyword
create_User(r, in) ==
    IF in.intentions_ids \/ in.user_fault = "model_error"
    THEN [row |-> {}, needs_rollback |-> FALSE, refused |-> {},
          mails |-> {}, activity |-> {}]
    ELSE IF in.user_fault = "db_error"
    THEN [row |-> {}, needs_rollback |-> TRUE, refused |-> {},
          mails |-> {}, activity |-> {}]
    ELSE IF UsernameTaken(r.username)
    THEN [row |-> {}, needs_rollback |-> TRUE, refused |-> {"username"},
          mails |-> {}, activity |-> {}]
    ELSE LET sig == post_save_User(r, in)
         IN  [row |-> {UserRow(r)}, needs_rollback |-> sig.needs_rollback,
              refused |-> {}, mails |-> sig.mails, activity |-> sig.activity]

ProfileTable(user_type) ==
    IF user_type = "civilian" THEN civilians ELSE providers

\* identification_number is unique within each profile table
IdNumberTaken(rows, idn) == \E x \in rows : x.identification_number = idn

\* DAL.create(Civilian | SupportProvider, **data) with user = the Identity
create_Profile(r, in, user) ==
    IF in.profile_fault = "model_error"
    THEN [row |-> {}, needs_rollback |-> FALSE, refused |-> {}]
    ELSE IF in.profile_fault = "db_error" \/ user = {}  \* user_id is NOT NULL
    THEN [row |-> {}, needs_rollback |-> TRUE, refused |-> {}]
    ELSE IF IdNumberTaken(ProfileTable(in.user_type), r.identification_number)
    THEN [row |-> {}, needs_rollback |-> TRUE,
          refused |-> {"identification_number"}]
    ELSE [row |-> {ProfileRow(r)}, needs_rollback |-> FALSE, refused |-> {}]

\* DAL.create(UserActivity, user=user, activity_type='account_creation', ...);
\* a query in a transaction marked for rollback raises
create_Activity(r, in, needs_rollback) ==
    IF in.activity_fault = "model_error"
    THEN [row |-> {}, needs_rollback |-> needs_rollback]
    ELSE IF in.activity_fault = "db_error" \/ needs_rollback
    THEN [row |-> {}, needs_rollback |-> TRUE]
    ELSE [row |-> {ActivityRow(r, "account_creation")},
          needs_rollback |-> FALSE]

\* lines 117-199, the body of the atomic block after the pre-check: how it
\* ends (raised: an exception leaves the block) and what it has written by
\* then
Body(r, in) ==
    LET u == create_User(r, in)
        \* get_by_id returns None when the query raises
        city == IF u.needs_rollback THEN {} ELSE get_by_id_City(in.city_id)
        t1 == [EmptyTxn EXCEPT !.user = u.row, !.activity = u.activity,
                               !.needs_rollback = u.needs_rollback]
    IN
    IF city = {}
    THEN [raised |-> TRUE, outcome |-> Validation({}), txn |-> t1,
          refused |-> u.refused, mails |-> u.mails]
    ELSE IF in.user_type \notin {"civilian", "support_provider"}
    THEN [raised |-> TRUE, outcome |-> Validation({"user_type"}), txn |-> t1,
          refused |-> {}, mails |-> u.mails]
    ELSE
    LET pr == create_Profile(r, in, u.row)
        relations == IF in.user_type = "civilian" THEN in.intentions_ids
                     ELSE in.categories_ids
        t2 == [t1 EXCEPT !.civilian = IF in.user_type = "civilian"
                                      THEN pr.row ELSE {},
                         !.provider = IF in.user_type = "support_provider"
                                      THEN pr.row ELSE {},
                         !.needs_rollback = pr.needs_rollback]
    IN
    IF relations /\ (pr.row = {} \/ in.set_fails)
    THEN \* None has no attribute intentions, or set() raises
         [raised |-> TRUE, outcome |-> Generic, txn |-> t2,
          refused |-> pr.refused, mails |-> u.mails]
    ELSE
    LET a == IF u.row # {} THEN create_Activity(r, in, pr.needs_rollback)
             ELSE [row |-> {}, needs_rollback |-> pr.needs_rollback]
        t3 == [t2 EXCEPT !.activity = t2.activity \cup a.row,
                         !.needs_rollback = a.needs_rollback]
    IN  [raised |-> FALSE,
         outcome |-> Returned(IF u.row # {} THEN r.username ELSE "None"),
         txn |-> t3, refused |-> pr.refused, mails |-> u.mails]

\* the writes outside any atomic block: each one is committed as it is made
AtomicExitAutocommit(res) == res.txn

\* transaction.atomic().__exit__: what of the block's writes is committed.
\* Rolled back when an exception leaves the block or the transaction was
\* marked for rollback
AtomicExit(res) ==
    IF res.raised \/ res.txn.needs_rollback THEN EmptyTxn ELSE res.txn

\* lines 117-199: the writes of the call, the exit of the atomic block, the
\* return or the raise, with the remaining arguments and the environment of
\* the call drawn from ins
WriteFrom(p, ins) ==
    /\ pc[p] = "validated"
    /\ \E in \in ins, r \in req[p] :
        \E res \in {Body(r, in)} :
        \E t \in {AtomicExit(res)} :
            /\ users' = users \cup t.user
            /\ civilians' = civilians \cup t.civilian
            /\ providers' = providers \cup t.provider
            /\ activities' = activities \cup t.activity
            /\ registered' = registered \cup (IF t.user # {} THEN {r} ELSE {})
            /\ Return(p, res.outcome, seen[p], Written(res.txn), res.refused,
                      res.mails, ~(res.raised \/ res.txn.needs_rollback))
    /\ UNCHANGED <<admins, calls, access, resetvars>>

\* the writes of a call while the mail transport is up
Write(p) == WriteFrom(p, Rest)

\* ---------------------------------------------------------------------
\* Login, failed-login tracking, lockout and activation

MaxLogins == 5
MaxActivationLogins == 2
MaxTime == 6

SUSPICIOUS_ATTEMPT_THRESHOLD == 5

\* LockoutPolicy: failures from one source that lock, and for how long
LockoutThreshold == 5
LockoutDuration == 5

Addrs == {"203.0.113.5"}
\* a request carries its client address; "None" is no request at all
Requests == Addrs \cup {"None"}
\* the bucket of failures that come without a request
Sources == Addrs \cup {"unknown"}
LoginNames == Usernames \cup {AdminUser.username}

NoLogin == [username |-> "None", source |-> "None", failed |-> FALSE,
            time |-> 0, outcome |-> "none", counted |-> FALSE, total |-> 0,
            alerts |-> 0, entries |-> 0, evaluations |-> 0]

NoAdminCall == [op |-> "none", caller |-> "None", target |-> "None",
                result |-> "none"]

InitAccess ==
    /\ attempts = [k \in LoginNames \X Addrs |-> 0]
    /\ ledger = [s \in Sources |-> 0]
    /\ lockouts = {}
    /\ now = 0
    /\ logins = 0
    /\ lastlogin = NoLogin
    /\ activated = {}
    /\ lastadmin = NoAdminCall

\* ---------------------------------------------------------------------
\* Password reset

MaxResets == 6
MaxWindowResets == 3

\* the validity window of a reset token
ResetWindow == 1

MAX_ATTEMPTS == 5

Tokens == {"t1", "t2"}
Passwords == {"old", "new"}
ResetUsers == LoginNames

NoReset == [op |-> "none", user |-> "None", outcome |-> "none",
            token |-> "None", mailed |-> FALSE, denied |-> FALSE,
            first_use |-> FALSE, age |-> 0, counter_before |-> 0,
            counter_after |-> 0, password_changed |-> FALSE]

Idle == [pc |-> "idle", user |-> "None", token |-> "None", found |-> {}]

InitReset ==
    /\ resets = {}
    /\ issued = [u \in ResetUsers |-> {}]
    /\ issued_at = [u \in ResetUsers |-> [t \in Tokens |-> -1]]
    /\ redeemed = [u \in ResetUsers |-> {}]
    /\ passwords = [u \in ResetUsers |-> "old"]
    /\ rthread = [p \in Procs |-> Idle]
    /\ resetcalls = 0
    /\ lastreset = NoReset
    /\ completed = [u \in ResetUsers |-> 0]

Init ==
    /\ users = {AdminUser}
    /\ civilians = {}
    /\ providers = {}
    /\ admins = {AdminProfile}
    /\ activities = {}
    /\ calls = 0
    /\ pc = [p \in Procs |-> "idle"]
    /\ req = [p \in Procs |-> {}]
    /\ seen = [p \in Procs |-> NotSeen]
    /\ last = [outcome |-> [kind |-> "none", fields |-> {}, value |-> "None"],
               seen |-> NotSeen, written |-> {}, refused |-> {}, mails |-> {},
               committed |-> FALSE]
    /\ registered = {}
    /\ InitAccess
    /\ InitReset

Next == \E p \in Procs : Validate(p) \/ Write(p)

Spec == Init /\ [][Next]_vars

\* the writes of a call whatever the mail transport does
WriteMail(p) == WriteFrom(p, RestMail)

\* registration with a mail transport that may fail
NextMail ==
    \E p \in Procs : (calls < MaxMailCalls /\ Validate(p)) \/ WriteMail(p)

SpecMail == Init /\ [][NextMail]_vars

\* get_client_ip_address(request): the address the request came from
get_client_ip_address(request) == request

RECURSIVE failures_from(_, _, _)
\* the sum of failures_since_start over the AccessAttempt rows of names at ip
failures_from(rows, names, ip) ==
    IF names = {} THEN 0
    ELSE LET n == CHOOSE x \in names : TRUE
         IN  rows[<<n, ip>>] + failures_from(rows, names \ {n}, ip)

\* alert_for_suspicious_activity(username, request): sums failures_since_start
\* over the AccessAttempt rows of the request's address, adding one to the
\* row of username, or one to the sum when the address has no such row, and
\* mails the Administrator group when the sum reaches the threshold.  Without
\* a request get_client_ip_address raises; the exception is logged and
\* swallowed, nothing is counted and nothing is sent.
alert_for_suspicious_activity(rows, username, request) ==
    IF request = "None"
    THEN [sent |-> FALSE, counted |-> FALSE, total |-> 0]
    ELSE LET ip == get_client_ip_address(request)
             from_ip == {n \in LoginNames : rows[<<n, ip>>] > 0}
             updated == username \in from_ip
             summed == failures_from(rows, from_ip \ {username}, ip)
                       + (IF updated THEN rows[<<username, ip>>] + 1 ELSE 0)
             total == IF updated THEN summed ELSE summed + 1
         IN  [sent |-> total >= SUSPICIOUS_ATTEMPT_THRESHOLD,
              counted |-> TRUE, total |-> total]

\* the attempt tracker's receiver of user_login_failed: adds the failure to
\* the AccessAttempt row of (username, address); without a request it has no
\* address and records nothing
log_user_login_failed(rows, username, request) ==
    IF request = "None" THEN rows
    ELSE [rows EXCEPT ![<<username, get_client_ip_address(request)>>] = @ + 1]

\* on_user_login_failed(sender, credentials, request): a login_failed
\* activity when the user exists and there is a request, then the alert
on_user_login_failed(rows, username, request) ==
    [activity |-> IF get_by_field({u \in users : u.username = username}) # {}
                     /\ request # "None"
                  THEN {[user |-> username, activity_type |-> "login_failed"]}
                  ELSE {},
     alert |-> alert_for_suspicious_activity(rows, username, request)]

\* authenticate() found no backend that accepts the credentials and sends
\* user_login_failed to its receivers: the attempt tracker's and
\* on_user_login_failed, in the order they were connected (tracker_first)
user_login_failed(rows, username, request, tracker_first) ==
    LET logged == log_user_login_failed(rows, username, request)
        mine == on_user_login_failed(IF tracker_first THEN logged ELSE rows,
                                     username, request)
    IN  [rows |-> logged, activity |-> mine.activity, alert |-> mine.alert]

\* LockoutPolicy.on_failure(username, source): the ledger counts the failure
\* of the source; from the threshold on, username is locked out for the
\* lockout duration and the window never shrinks
on_failure(username, source) ==
    LET count == ledger[source] + 1
        until == now + LockoutDuration
        old == {l \in lockouts : l.username = username}
        kept == {l \in old : l.lockout_until >= until}
    IN  /\ ledger' = [ledger EXCEPT ![source] = count]
        /\ lockouts' =
              IF count >= LockoutThreshold /\ kept = {}
              THEN (lockouts \ old)
                   \cup {[username |-> username, lockout_until |-> until]}
              ELSE lockouts

\* FailedLoginAttempt.is_locked_out(): the stored timestamp is still ahead
is_locked_out(attempt) == now < attempt.lockout_until

\* a check that never finds a lockout
login_view_open(username) == "login"

\* a check that takes the stored row itself for a lockout
login_view_sticky(username) ==
    IF \E attempt \in lockouts : attempt.username = username
    THEN "lockout_message" ELSE "login"

\* login_view: FailedLoginAttempt.objects.filter(username=username).first(),
\* and the lockout page when there is a row and it is_locked_out()
login_view(username) ==
    IF \E attempt \in lockouts :
           attempt.username = username /\ is_locked_out(attempt)
    THEN "lockout_message" ELSE "login"

\* login_user(request, username, password); correct tells whether a backend
\* accepts the password
LoginWithin(limit) ==
    /\ logins < limit
    /\ \E username \in LoginNames, request \in Addrs,
          correct, tracker_first \in BOOLEAN :
          LET user == get_by_field({u \in users : u.username = username})
              ended(outcome, entries) ==
                  [username |-> username, source |-> request,
                   failed |-> FALSE, time |-> now, outcome |-> outcome,
                   counted |-> FALSE, total |-> 0, alerts |-> 0,
                   entries |-> entries, evaluations |-> 0]
          IN  /\ logins' = logins + 1
              /\ IF user = {}
                 THEN /\ lastlogin' = ended("No such user exists.", 0)
                      /\ UNCHANGED <<activities, attempts, ledger, lockouts>>
                 ELSE IF \E u \in user : ~u.is_active
                 THEN /\ lastlogin' = ended("User inactive", 0)
                      /\ UNCHANGED <<activities, attempts, ledger, lockouts>>
                 ELSE IF correct
                 THEN \* login() sends user_logged_in to track_user_login,
                      \* which writes a 'login' entry; login_user writes
                      \* another
                      /\ lastlogin' = ended("token", 2)
                      /\ activities' = activities \cup
                            {[user |-> username, activity_type |-> "login"]}
                      /\ UNCHANGED <<attempts, ledger, lockouts>>
                 ELSE LET sig == user_login_failed(attempts, username,
                                                   request, tracker_first)
                          mine == alert_for_suspicious_activity(
                                      sig.rows, username, request)
                      IN  /\ attempts' = sig.rows
                          /\ activities' = activities \cup sig.activity \cup
                                {[user |-> username,
                                  activity_type |-> "login_failed"]}
                          /\ on_failure(username, request)
                          /\ lastlogin' =
                                [username |-> username, source |-> request,
                                 failed |-> TRUE, time |-> now,
                                 outcome |-> "Invalid username or password",
                                 counted |-> sig.rows # attempts,
                                 total |-> mine.total,
                                 alerts |-> (IF sig.alert.sent THEN 1 ELSE 0)
                                            + (IF mine.sent THEN 1 ELSE 0),
                                 entries |-> Cardinality(sig.activity) + 1,
                                 evaluations |-> 2]
    /\ UNCHANGED <<users, civilians, providers, admins, regvars, now,
                   activated, lastadmin, resetvars>>

LoginUser == LoginWithin(MaxLogins)

\* authenticate(username=..., password=...) called with no request and
\* credentials no backend accepts: only the receivers of user_login_failed run
AuthenticateWithoutRequest ==
    /\ logins < MaxLogins
    /\ \E username \in LoginNames, tracker_first \in BOOLEAN :
          LET sig == user_login_failed(attempts, username, "None",
                                       tracker_first)
          IN  /\ logins' = logins + 1
              /\ attempts' = sig.rows
              /\ activities' = activities \cup sig.activity
              /\ on_failure(username, "unknown")
              /\ lastlogin' =
                    [username |-> username, source |-> "unknown",
                     failed |-> TRUE, time |-> now, outcome |-> "None",
                     counted |-> sig.rows # attempts \/ sig.alert.counted,
                     total |-> sig.alert.total,
                     alerts |-> IF sig.alert.sent THEN 1 ELSE 0,
                     entries |-> Cardinality(sig.activity),
                     evaluations |-> 1]
    /\ UNCHANGED <<users, civilians, providers, admins, regvars, now,
                   activated, lastadmin, resetvars>>

\* a group check that lets every user through
is_administrator_anyone(username) == TRUE

\* admin_user.groups.filter(name='Administrator').exists()
is_administrator(username) == \E a \in admins : a.user = username

\* the dict an Administrator facade call returns
AdminCallEnded(op, admin_user, target, result) ==
    lastadmin' = [op |-> op, caller |-> admin_user.username,
                  target |-> target, result |-> result]

\* activate_user(request, admin_user_id, user_id_to_activate)
ActivateUser ==
    /\ \E admin_user \in users, user_to_activate \in users :
          LET ended(result) ==
                  AdminCallEnded("activate_user", admin_user,
                                 user_to_activate.username, result)
          IN  IF ~is_administrator(admin_user.username)
              THEN /\ ended("Permission denied")
                   /\ UNCHANGED <<users, activities, activated>>
              ELSE IF user_to_activate.is_active
              THEN /\ ended("User already active")
                   /\ UNCHANGED <<users, activities, activated>>
              ELSE /\ users' = (users \ {user_to_activate})
                        \cup {[user_to_activate EXCEPT !.is_active = TRUE]}
                   /\ activities' = activities \cup
                         {[user |-> admin_user.username,
                           activity_type |-> "account_activated"]}
                   /\ activated' = activated
                                       \cup {user_to_activate.username}
                   /\ ended("success")
    /\ UNCHANGED <<civilians, providers, admins, regvars, attempts, ledger,
                   lockouts, now, logins, lastlogin, resetvars>>

\* deactivate_user(request, admin_user_id, user_id_to_deactivate)
DeactivateUser ==
    /\ \E admin_user \in users, user_to_deactivate \in users :
          LET ended(result) ==
                  AdminCallEnded("deactivate_user", admin_user,
                                 user_to_deactivate.username, result)
          IN  IF ~is_administrator(admin_user.username)
              THEN /\ ended("Permission denied")
                   /\ UNCHANGED <<users, activities>>
              ELSE IF ~user_to_deactivate.is_active
              THEN /\ ended("User already inactive")
                   /\ UNCHANGED <<users, activities>>
              ELSE /\ users' = (users \ {user_to_deactivate})
                        \cup {[user_to_deactivate EXCEPT !.is_active = FALSE]}
                   /\ activities' = activities \cup
                         {[user |-> admin_user.username,
                           activity_type |-> "account_deactivated_by_admin"]}
                   /\ ended("success")
    /\ UNCHANGED <<civilians, providers, admins, regvars, attempts, ledger,
                   lockouts, now, logins, lastlogin, activated, resetvars>>

\* clear_specific_access_attempts(request, admin_user_id, ip_address):
\* AccessAttempt.objects.filter(ip_address=ip_address).delete()
ClearSpecificAccessAttempts ==
    /\ \E admin_user \in users, ip_address \in Addrs :
          LET ended(result) ==
                  AdminCallEnded("clear_specific_access_attempts", admin_user,
                                 ip_address, result)
          IN  IF ~is_administrator(admin_user.username)
              THEN /\ ended("Permission denied")
                   /\ UNCHANGED <<attempts, activities>>
              ELSE /\ attempts' = [k \in DOMAIN attempts |->
                                      IF k[2] = ip_address THEN 0
                                      ELSE attempts[k]]
                   /\ activities' = activities \cup
                         {[user |-> admin_user.username,
                           activity_type |-> "access_attempts_cleared"]}
                   /\ ended("success")
    /\ UNCHANGED <<users, civilians, providers, admins, regvars, ledger,
                   lockouts, now, logins, lastlogin, activated, resetvars>>

\* a minute, or a whole lockout duration, passes
Tick ==
    /\ \E d \in {1, LockoutDuration} :
          /\ now + d <= MaxTime
          /\ now' = now + d
    /\ UNCHANGED <<tables, regvars, attempts, ledger, lockouts, logins,
                   lastlogin, activated, lastadmin, resetvars>>

\* a registration, then logins and the Administrator's switch
NextActivation ==
    \/ \E p \in Procs : (calls < MaxMailCalls /\ Validate(p)) \/ Write(p)
    \/ LoginWithin(MaxActivationLogins)
    \/ ActivateUser
    \/ DeactivateUser

SpecActivation == Init /\ [][NextActivation]_vars

\* the store once alice has registered as a civilian
Alice ==
    [username |-> "alice", email |-> "a@x.org", phone_number |-> "+1555",
     identification_number |-> "ID-200", id_type |-> "passport",
     terms_accepted |-> TRUE]

RegisteredStore ==
    /\ users = {AdminUser, UserRow(Alice)}
    /\ civilians = {ProfileRow(Alice)}
    /\ providers = {}
    /\ admins = {AdminProfile}
    /\ activities = {ActivityRow(Alice, "account_activated"),
                     ActivityRow(Alice, "welcome_email_sent"),
                     ActivityRow(Alice, "account_creation")}
    /\ calls = 1
    /\ pc = [p \in Procs |-> "idle"]
    /\ req = [p \in Procs |-> {}]
    /\ seen = [p \in Procs |-> NotSeen]
    /\ last = [outcome |-> Returned("alice"), seen |-> NotSeen,
               written |-> {"Identity", "Profile", "Activity"},
               refused |-> {}, mails |-> {"Account Activated",
                                          "Welcome to Our Service"},
               committed |-> TRUE]
    /\ registered = {Alice}

\* the store once alice has registered, before any login or reset
Registered ==
    /\ RegisteredStore
    /\ InitAccess
    /\ InitReset

\* the Administrator facade at work between logins
NextAdmin ==
    \/ LoginWithin(MaxActivationLogins)
    \/ ActivateUser
    \/ DeactivateUser
    \/ ClearSpecificAccessAttempts

SpecAdmin == Registered /\ [][NextAdmin]_vars

\* failed logins, with and without a request, as time passes
NextLogin == LoginUser \/ AuthenticateWithoutRequest \/ Tick

SpecLogin == Registered /\ [][NextLogin]_vars

\* the PasswordResetRequest rows of a user
rows_of(user) == {r \in resets : r.user = user}

RECURSIVE highest(_)
highest(rows) ==
    IF rows = {} THEN 0
    ELSE LET r == CHOOSE x \in rows : TRUE
             rest == highest(rows \ {r})
         IN  IF r.request_count > rest THEN r.request_count ELSE rest

\* the request counter of a user: request_count of its record, 0 without one
counter(user) == highest(rows_of(user))

\* can_request_password_reset(user): with a record, request_count below
\* MAX_ATTEMPTS and the token not used; True without one
can_request_password_reset(user) ==
    LET reset_request == get_by_field(rows_of(user))
    IN  IF reset_request # {}
        THEN \E r \in reset_request :
                 r.request_count < MAX_ATTEMPTS /\ ~r.token_used
        ELSE TRUE

\* DAL.get_by_field(PasswordResetRequest, user=user, token=token):
\* PasswordResetRequest has no field 'token', the lookup raises FieldError and
\* DAL.get_by_field returns None
get_by_field_token(user, token) == {}

\* how a password reset call ended, with the request counter after it in rows
ResetEnded(op, user, outcome, token, mailed, denied, rows, changed) ==
    lastreset' = [op |-> op, user |-> user, outcome |-> outcome,
                  token |-> token, mailed |-> mailed, denied |-> denied,
                  first_use |-> token \in Tokens
                                /\ token \notin redeemed[user],
                  age |-> IF token \in Tokens /\ token \in issued[user]
                          THEN now - issued_at[user][token] ELSE 0,
                  counter_before |-> counter(user),
                  counter_after |-> highest({r \in rows : r.user = user}),
                  password_changed |-> changed]

\* request_password_reset(user), first half: the token is drawn and
\* get_or_create looks the record up.  More than one record makes
\* get_or_create return (None, False), and reset_request.request_count raises
RequestLookupWithin(p, limit) ==
    /\ rthread[p].pc = "idle"
    /\ resetcalls < limit
    /\ \E user \in {u.username : u \in users}, token \in Tokens :
          /\ resetcalls' = resetcalls + 1
          /\ IF Cardinality(rows_of(user)) > 1
             THEN /\ ResetEnded("request_password_reset", user,
                                "AttributeError", "None", FALSE, FALSE,
                                resets, FALSE)
                  /\ UNCHANGED rthread
             ELSE /\ rthread' = [rthread EXCEPT ![p] =
                        [pc |-> "looked_up", user |-> user, token |-> token,
                         found |-> rows_of(user)]]
                  /\ UNCHANGED lastreset
    /\ UNCHANGED <<tables, regvars, access, resets, issued, issued_at,
                   redeemed, passwords, completed>>

RequestLookup(p) == RequestLookupWithin(p, MaxResets)

\* request_password_reset(user), second half: get_or_create inserts the
\* record it did not find, or request_count + 1 of the record it read is
\* saved; then the token is mailed and returned
RequestWrite(p) ==
    /\ rthread[p].pc = "looked_up"
    /\ LET user == rthread[p].user
           token == rthread[p].token
           found == rthread[p].found
           created == [id |-> Cardinality(resets) + 1, user |-> user,
                       token_used |-> FALSE, request_count |-> 1]
           saved ==
               IF found = {} THEN resets \cup {created}
               ELSE {r \in resets : \A f \in found : r.id # f.id}
                    \cup {[f EXCEPT !.request_count = @ + 1] : f \in found}
       IN  /\ resets' = saved
           /\ issued' = [issued EXCEPT ![user] = @ \cup {token}]
           /\ issued_at' = [issued_at EXCEPT ![user][token] = now]
           /\ completed' = [completed EXCEPT ![user] = @ + 1]
           /\ rthread' = [rthread EXCEPT ![p] = Idle]
           /\ ResetEnded("request_password_reset", user, "token", token,
                         TRUE, FALSE, saved, FALSE)
    /\ UNCHANGED <<tables, regvars, access, redeemed, passwords,
                   resetcalls>>

\* reset_password(request, email): whatever is raised inside, the limit
\* message included, leaves as one generic Exception; and
\* request_password_reset(user, request) raises TypeError, having one
\* parameter
ResetPassword ==
    /\ resetcalls < MaxResets
    /\ \E email \in Emails \cup {AdminUser.email} :
          LET user == get_by_field({u \in users : u.email = email})
              name == IF user = {} THEN "None"
                      ELSE CHOOSE n \in {u.username : u \in user} : TRUE
              denied == user # {} /\ ~can_request_password_reset(name)
          IN  /\ resetcalls' = resetcalls + 1
              /\ ResetEnded("reset_password", name,
                            "An error occurred while processing your password reset request.",
                            "None", FALSE, denied, resets, FALSE)
    /\ UNCHANGED <<tables, regvars, access, resets, issued, issued_at,
                   redeemed, passwords, rthread, completed>>

\* finalize_password_reset(user, token, new_password)
FinalizeWithin(limit) ==
    /\ resetcalls < limit
    /\ \E user \in {u.username : u \in users}, token \in Tokens,
          new_password \in Passwords :
          LET reset_request == get_by_field_token(user, token)
          IN  /\ resetcalls' = resetcalls + 1
              /\ IF reset_request = {}
                 THEN \* None.token_used
                      /\ ResetEnded("finalize_password_reset", user,
                                    "AttributeError", token, FALSE, FALSE,
                                    resets, FALSE)
                      /\ UNCHANGED <<resets, passwords, redeemed>>
                 ELSE IF \E r \in reset_request : r.token_used
                 THEN /\ ResetEnded("finalize_password_reset", user,
                                    "This token has already been used.",
                                    token, FALSE, FALSE, resets, FALSE)
                      /\ UNCHANGED <<resets, passwords, redeemed>>
                 ELSE /\ passwords' = [passwords EXCEPT ![user] = new_password]
                      /\ redeemed' = [redeemed EXCEPT ![user] = @ \cup {token}]
                      /\ resets' = (resets \ reset_request) \cup
                            {[r EXCEPT !.token_used = TRUE] :
                                 r \in reset_request}
                      /\ ResetEnded("finalize_password_reset", user, "None",
                                    token, TRUE, FALSE, resets,
                                    passwords[user] # new_password)
    /\ UNCHANGED <<tables, regvars, access, issued, issued_at, rthread,
                   completed>>

FinalizePasswordReset == FinalizeWithin(MaxResets)

\* admin_initiated_password_reset(admin_user_id, user_id_to_reset, request):
\* past the two checks, request_password_reset(user_to_reset, request) raises
\* TypeError and the call returns the error dict
AdminInitiatedPasswordReset ==
    /\ resetcalls < MaxResets
    /\ \E admin_user \in users, user_to_reset \in users :
          LET name == user_to_reset.username
              denied == ~can_request_password_reset(name)
          IN  /\ resetcalls' = resetcalls + 1
              /\ ResetEnded("admin_initiated_password_reset", name,
                            IF ~is_administrator(admin_user.username)
                            THEN "Permission denied"
                            ELSE IF denied
                            THEN "Password reset not allowed for this user"
                            ELSE "An error occurred during the password reset process",
                            "None", FALSE,
                            is_administrator(admin_user.username) /\ denied,
                            resets, FALSE)
    /\ UNCHANGED <<tables, regvars, access, resets, issued, issued_at,
                   redeemed, passwords, rthread, completed>>

\* password reset calls, two request_password_reset calls at a time
NextReset ==
    \/ \E p \in Procs : RequestLookup(p) \/ RequestWrite(p)
    \/ ResetPassword
    \/ AdminInitiatedPasswordReset
    \/ FinalizePasswordReset

SpecReset == Registered /\ [][NextReset]_vars

\* one request_password_reset call at a time, and the clock
NextResetWindow ==
    \/ RequestLookupWithin("r1", MaxWindowResets)
    \/ RequestWrite("r1")
    \/ FinalizeWithin(MaxWindowResets)
    \/ Tick

SpecResetWindow == Registered /\ [][NextResetWindow]_vars

\* ------------------------------------------------------------------ claims
Errors == {"ValidationError", "Exception"}

Profiles == civilians \cup providers \cup admins

SameTriple(x, y) ==
    /\ x.identification_number = y.identification_number
    /\ x.country_of_issue = y.country_of_issue
    /\ x.id_type = y.id_type

\* the call ended with a field conflict that names field f
ConflictOn(f) ==
    last.outcome.kind = "ValidationError" /\ f \in last.outcome.fields

\* C1: when a call ends with an error after its Identity row was written, the
\* step that ends it leaves every table as it was, and no Identity, profile
\* or activity row of the call's username exists afterwards.
C1_ErrorLeavesNoRow ==
    [][\A p \in Procs :
        (/\ pc[p] = "validated" /\ pc'[p] = "idle"
         /\ last'.outcome.kind \in Errors
         /\ "Identity" \in last'.written)
        => /\ UNCHANGED tables
           /\ \A r \in req[p] :
                /\ get_by_field({u \in users' : u.username = r.username}) = {}
                /\ \A x \in civilians' \cup providers' : x.user # r.username
                /\ \A a \in activities' : a.user # r.username]_vars

\* a call raised from the relation step, with its Identity and its Profile
\* written
C1_RaisedAfterIdentity ==
    /\ last.outcome.kind = "Exception"
    /\ {"Identity", "Profile"} \subseteq last.written

\* C2: every registered Identity has exactly one Profile, and a call that
\* returns an Identity has committed it together with its Profile.
C2_IdentityHasOneProfile ==
    /\ \A u \in users \ {AdminUser} :
         Cardinality({x \in civilians \cup providers : x.user = u.username}) = 1
    /\ (last.outcome.kind = "returned" /\ last.outcome.value # "None")
         => /\ \E u \in users : u.username = last.outcome.value
            /\ \E x \in civilians \cup providers : x.user = last.outcome.value

\* C3: no two Identity rows have the same username, under every interleaving
\* of the calls.
C3_OneIdentityPerUsername ==
    \A u1, u2 \in users : u1.username = u2.username => u1 = u2

\* a call found its username free at the pre-check and was refused by the
\* store at the INSERT: another call committed the name in between
C3_RaceOnUsername ==
    /\ "username" \in last.refused
    /\ "username" \notin last.seen.collided
    /\ last.outcome.kind \in Errors

\* C4: the call that loses a race on a username ends with a field conflict
\* that names username.
C4_LoserGetsUsernameConflict ==
    "username" \in last.refused => ConflictOn("username")

\* C5: a call whose payload repeats that of a committed registration ends
\* with a conflict on a unique field and writes nothing.
C5_RepeatIsConflict ==
    last.seen.dup =>
        /\ last.outcome.kind = "ValidationError"
        /\ last.outcome.fields \cap UniqueFields # {}
        /\ last.written = {}

\* the second of two identical registrations has ended
C5_RepeatRejected ==
    /\ last.seen.dup
    /\ last.outcome.kind = "ValidationError"
    /\ Cardinality(registered) = 1

\* C6: a call whose identification triple is held by a profile of any variant
\* ends with a conflict on identification_number and writes nothing; no two
\* profiles hold the same triple.
C6_TripleConflict ==
    /\ "identification_number" \in last.seen.collided
         => ConflictOn("identification_number") /\ last.written = {}
    /\ \A x, y \in Profiles : SameTriple(x, y) => x = y

\* C7: a call whose phone_number is held by a profile ends with a conflict on
\* phone_number and writes nothing; no two profiles hold the same phone_number.
C7_PhoneConflict ==
    /\ "phone_number" \in last.seen.collided
         => ConflictOn("phone_number") /\ last.written = {}
    /\ \A x, y \in Profiles : x.phone_number = y.phone_number => x = y

\* C8: no two Identity rows have the same email, under every interleaving of
\* the calls, and a call whose email is held ends with a conflict on email.
C8_EmailUnique ==
    /\ \A u1, u2 \in users : u1.email = u2.email => u1 = u2
    /\ "email" \in last.seen.collided => ConflictOn("email")

\* C9: a call with a colliding unique field ends with a conflict whose fields
\* are exactly the colliding ones.
C9_ConflictNamesColliding ==
    last.seen.collided # {} =>
        /\ last.outcome.kind = "ValidationError"
        /\ last.outcome.fields \cap UniqueFields = last.seen.collided

\* C10: a call with terms_accepted false ends with a rejection that names
\* terms_accepted and writes no row, whatever its other fields are.
C10_TermsRequired ==
    ~last.seen.terms_accepted =>
        /\ ConflictOn("terms_accepted")
        /\ last.written = {}

\* a call without the terms was rejected while another of its fields collided
C10_TermsRejected ==
    /\ ~last.seen.terms_accepted
    /\ last.outcome.kind = "ValidationError"
    /\ last.seen.collided # {}

\* C12: the registration mails of a call are sent if and only if the call
\* commits its Identity (and so never for a call that is rolled back).
C12_MailIffCommitted ==
    last.mails # {} <=> (last.committed /\ "Identity" \in last.written)

\* what a call leaves apart from the receivers' own activity rows
Registration(res) ==
    LET t == AtomicExit(res)
    IN  [outcome |-> res.outcome, user |-> t.user, civilian |-> t.civilian,
         provider |-> t.provider,
         activity |-> {a \in t.activity : a.activity_type = "account_creation"}]

\* C13: whatever a validated call is given, a failure of the mails of the
\* post_save receivers changes neither what the call returns nor the
\* Identity, Profile and account_creation rows it commits.
C13_MailFailureIsolated ==
    \A p \in Procs : \A r \in req[p] : \A in \in Rest :
        \A m1, m2 \in BOOLEAN :
            Registration(Body(r, [in EXCEPT !.activation_mail = m1,
                                            !.welcome_mail = m2]))
                = Registration(Body(r, in))

\* a call whose mails both failed committed its Identity and returned it
C13_CommittedWithoutMail ==
    /\ last.mails = {}
    /\ last.committed /\ {"Identity", "Profile", "Activity"} \subseteq last.written
    /\ last.outcome.kind = "returned" /\ last.outcome.value # "None"

\* C11: an Identity that register_user has committed stays inactive until an
\* Administrator's activate_user activates it, and login_user gives no token
\* to an Identity that was never activated.
C11_InactiveUntilActivated ==
    /\ \A u \in users \ {AdminUser} : u.is_active => u.username \in activated
    /\ lastlogin.outcome = "token"
           => lastlogin.username \in activated \cup {AdminUser.username}

\* the failures the attempt tracker has stored for an address
stored_failures(ip) == failures_from(attempts, LoginNames, ip)

C16_AlertExactlyAtThreshold ==
    (lastlogin.failed /\ lastlogin.source \in Addrs)
        => (lastlogin.alerts > 0 <=> stored_failures(lastlogin.source) >= 5)

\* C17: a failed login that comes without a request is counted all the same.
C17_UnknownSourceCounted ==
    (lastlogin.failed /\ lastlogin.source = "unknown") => lastlogin.counted

\* C18: finalize_password_reset with a token that was issued to the user
\* succeeds and changes the password the first time; every later call with
\* that token fails and leaves the password as it is.
C18_TokenRedeemedOnce ==
    (/\ lastreset.op = "finalize_password_reset"
     /\ lastreset.token \in issued[lastreset.user])
        => IF lastreset.first_use
           THEN lastreset.outcome = "None"
           ELSE /\ lastreset.outcome \in
                       {"Invalid password reset token.",
                        "This token has already been used."}
                /\ ~lastreset.password_changed

\* C19: from request counter 5 on can_request_password_reset is false, and a
\* reset request is refused as a denial by policy, with no token, no mail and
\* the counter as it was.
C19_QuotaRefused ==
    /\ \A u \in ResetUsers :
           counter(u) >= 5 => ~can_request_password_reset(u)
    /\ (lastreset.op = "reset_password" /\ lastreset.counter_before >= 5)
           => /\ lastreset.outcome =
                    "Password reset limit reached. Please contact support."
              /\ lastreset.token = "None" /\ ~lastreset.mailed
              /\ lastreset.counter_after = lastreset.counter_before

\* C20: when no request_password_reset call is in progress, the request
\* counter of a user is at least the number of calls that returned for it.
C20_NoLostIncrement ==
    (\A p \in Procs : rthread[p].pc = "idle")
        => \A u \in ResetUsers : counter(u) >= completed[u]

\* C24: a register_user call that returns the new Identity has committed its
\* account_creation activity entry together with it, and every
\* account_creation entry belongs to a committed Identity.
C24_CreationLogged ==
    /\ (last.outcome.kind = "returned" /\ last.outcome.value # "None")
           => \E a \in activities :
                  /\ a.user = last.outcome.value
                  /\ a.activity_type = "account_creation"
    /\ \A a \in activities :
           a.activity_type = "account_creation"
               => \E u \in users : u.username = a.user

\* support_provider.support_provider_categories after register_user: the
\* categories of the ids given, none when no id was given
categories_set(in) == in.categories_ids

\* C23: every SupportProvider profile that register_user commits has a
\* non-empty category set (and every profile a non-empty language set): a
\* registration without them is rejected.
C23_ProfileHasCategories ==
    \A p \in Procs : \A r \in req[p] : \A in \in Rest :
        AtomicExit(Body(r, in)).provider # {} => categories_set(in)

\* C27: every login_user call that ends without a token (wrong password,
\* unknown username, inactive account) is counted as a failure of its address.
C27_EveryFailureCounted ==
    (lastlogin.source \in Addrs /\ lastlogin.outcome \notin {"none", "token"})
        => lastlogin.counted

\* C28: a login_user call that fails on the password writes one login_failed
\* entry, evaluates the alert once and mails at most one alert; a successful
\* one writes one login entry.
C28_RecordedOnce ==
    /\ (lastlogin.failed /\ lastlogin.source \in Addrs)
           => /\ lastlogin.entries = 1
              /\ lastlogin.evaluations = 1
              /\ lastlogin.alerts <= 1
    /\ lastlogin.outcome = "token" => lastlogin.entries = 1

\* C25: no step takes anything away from the failures recorded for a
\* (username, address) pair.
C25_LedgerOnlyGrows ==
    [][\A k \in DOMAIN attempts : attempts'[k] >= attempts[k]]_vars

\* the target of the Administrator facade call is in the state it asks for
AlreadySo(call) ==
    \E u \in users :
        /\ u.username = call.target
        /\ u.is_active = (call.op = "activate_user")

\* C30: activate_user and deactivate_user answer 'Permission denied' to a
\* caller outside the Administrator group and an error to an Administrator
\* whose target is already in the requested state, and whenever they do not
\* succeed, no Identity and no activity entry changes.
C30_RefusedChangesNothing ==
    [][(/\ lastadmin' # lastadmin
        /\ lastadmin'.op \in {"activate_user", "deactivate_user"})
          => /\ (\A a \in admins : a.user # lastadmin'.caller)
                    => lastadmin'.result = "Permission denied"
             /\ ((\E a \in admins : a.user = lastadmin'.caller)
                    /\ AlreadySo(lastadmin'))
                    => lastadmin'.result \in {"User already active",
                                              "User already inactive"}
             /\ lastadmin'.result # "success"
                    => users' = users /\ activities' = activities]_vars

\* a caller outside the Administrator group has been refused
C30_Refused ==
    /\ lastadmin.op \in {"activate_user", "deactivate_user"}
    /\ lastadmin.caller = "alice"
    /\ lastadmin.result = "Permission denied"

\* C21: finalize_password_reset with an issued token whose validity window
\* has passed fails with the invalid-token error and leaves the password.
C21_LateTokenInvalid ==
    (/\ lastreset.op = "finalize_password_reset"
     /\ lastreset.token \in issued[lastreset.user]
     /\ lastreset.age > ResetWindow)
        => /\ lastreset.outcome = "Invalid password reset token."
           /\ ~lastreset.password_changed

\* C22: a reset request for an existing user who may request one returns a
\* token that is on record for the user, and raises the request counter by
\* exactly one.
C22_RequestSucceeds ==
    (/\ lastreset.op \in {"reset_password", "admin_initiated_password_reset"}
     /\ lastreset.user # "None"
     /\ lastreset.outcome # "Permission denied"
     /\ ~lastreset.denied)
        => /\ lastreset.outcome = "token"
           /\ lastreset.token \in issued[lastreset.user]
           /\ lastreset.counter_after = lastreset.counter_before + 1

C29_ResetMarksTokenUsed ==
    \A u \in ResetUsers :
        redeemed[u] # {} => \E r \in rows_of(u) : r.token_used

====
